---- MODULE Spec2Model ----
(***************************************************************************)
(* Shape, dependency and state model of ErisGe/ClassicGAN:                 *)
(*   - src/network.py: the WaveNet stack (DilatedCausalConv1d,             *)
(*     ResidualBlock, ResidualStack, PostProcess, Wavenet);                *)
(*   - src/v1 & v2/Model.py: spectral_norm, conv, dense, encoder, the      *)
(*     generator pyramid and the discriminator's downsample.               *)
(*                                                                         *)
(* A 1-D tensor of shape (B, C, T) is the record                           *)
(*   [ok, b, ch, data, terms]                                              *)
(* where b and ch are the batch and channel sizes, data is a sequence of   *)
(* length T whose element t+1 is the set of input time indices (0-based)   *)
(* the samples at time t are computed from, and terms is the additive      *)
(* decomposition of the tensor: the names of the layer outputs that were   *)
(* summed to obtain it.  ok = FALSE is the exception the tensor engine     *)
(* raises on a shape mismatch.  A 4-D tensor of Model.py is its shape, a   *)
(* sequence of dimension sizes.                                            *)
(***************************************************************************)
EXTENDS Integers, Sequences, FiniteSets, TLC

\* ------------------------------------------------------------------ bounds
MaxLayer == 3
MaxStack == 2
MaxT == 8
MaxBatch == 2
\* spectral_norm calls and update-op runs in one behaviour
MaxCalls == 3
\* spatial size of the generators' base feature map
MaxH == 3
MaxW == 3
\* spatial size of the encoder's input image
MaxEncH == 5
MaxEncW == 5
\* spatial size of the discriminator's input
MaxDownH == 5
MaxDownW == 5

\* Channel widths: the defaults of train.py:45-49 and a small configuration
\* with pairwise different widths.
\* <<channels, residual_channels, dilation_channels, skip_channels, end_channels>>
ChannelConfigs == { <<324, 128, 128, 512, 256>>, <<1, 2, 3, 4, 5>> }

\* ------------------------------------------------------------------ helpers
Max(a, b) == IF a >= b THEN a ELSE b
Min(a, b) == IF a <= b THEN a ELSE b

RECURSIVE Pow2(_)
\* Python's 2 ** i for i >= 0.
Pow2(i) == IF i <= 0 THEN 1 ELSE 2 * Pow2(i - 1)

RECURSIVE SumSeq(_)
SumSeq(s) == IF s = <<>> THEN 0 ELSE Head(s) + SumSeq(Tail(s))

\* Python's list(range(n)).
Range(n) == [k \in 1..Max(n, 0) |-> k - 1]

RECURSIVE Repeat(_, _)
\* Python's  list * n.
Repeat(s, n) == IF n <= 0 THEN <<>> ELSE s \o Repeat(s, n - 1)

\* A Python slice bound i on a sequence of length n: negative bounds count
\* from the end, and the result is clamped to 0..n.
PyIndex(i, n) == IF i < 0 THEN Max(i + n, 0) ELSE Min(i, n)
\* s[i:]
SliceFrom(s, i) == SubSeq(s, PyIndex(i, Len(s)) + 1, Len(s))
\* s[:j]
SliceTo(s, j) == SubSeq(s, 1, PyIndex(j, Len(s)))

\* ------------------------------------------------------------------ tensors
Tensor(b, ch, data, terms) ==
  [ok |-> TRUE, b |-> b, ch |-> ch, data |-> data, terms |-> terms]
Bad == [ok |-> FALSE, b |-> 0, ch |-> 0, data |-> <<>>, terms |-> <<>>]
\* The Python int 0 that ResidualStack.forward starts its sum from.
Zero == [ok |-> TRUE, b |-> 0, ch |-> 0, data |-> <<>>, terms |-> <<"int0">>]
IsInt(x) == x.terms = <<"int0">>
Shape(x) == <<x.b, x.ch, Len(x.data)>>

\* torch.nn.Conv1d(in_channels, out_channels, kernel_size, stride=1,
\*                 padding, dilation): the layer object.
Conv1dLayer(name, in_channels, out_channels, kernel_size, padding, dilation) ==
  [name |-> name, in_channels |-> in_channels, out_channels |-> out_channels,
   kernel_size |-> kernel_size, padding |-> padding, dilation |-> dilation]

\* The layer applied: zero padding of `padding` samples on both sides, then
\* output t is computed from the padded samples t, t + dilation, ...,
\* t + dilation * (kernel_size - 1); there are
\* T + 2 * padding - dilation * (kernel_size - 1) outputs (stride 1).
Conv1d(conv, x) ==
  IF ~x.ok \/ IsInt(x) \/ x.ch # conv.in_channels THEN Bad
  ELSE LET zeros == [k \in 1..conv.padding |-> {}]
           padded == zeros \o x.data \o zeros
           n == Len(padded) - conv.dilation * (conv.kernel_size - 1)
       IN IF n < 1 THEN Bad
          ELSE Tensor(x.b, conv.out_channels,
                      [t \in 1..n |->
                         UNION { padded[t + j * conv.dilation] :
                                   j \in 0..(conv.kernel_size - 1) }],
                      << conv.name >>)

\* An elementwise activation (tanh, sigmoid, relu): shape and dependencies
\* are kept.  relu of the Python int 0 is a TypeError.
Activation(x) == IF ~x.ok \/ IsInt(x) THEN Bad ELSE x

\* Broadcasting of operand y into the shape of x (in-place x += y, or x * y
\* with x the larger): every dimension of y equals that of x or is 1.
BroadcastsInto(y, x) ==
  /\ y.b = x.b \/ y.b = 1
  /\ y.ch = x.ch \/ y.ch = 1
  /\ Len(y.data) = Len(x.data) \/ Len(y.data) = 1

At(y, t) == IF Len(y.data) = 1 THEN y.data[1] ELSE y.data[t]

\* gated_tanh * gated_sigmoid
Mul(x, y, name) ==
  IF ~x.ok \/ ~y.ok \/ ~BroadcastsInto(y, x) THEN Bad
  ELSE Tensor(x.b, x.ch, [t \in 1..Len(x.data) |-> x.data[t] \cup At(y, t)],
              << name >>)

\* x += y
AddInPlace(x, y) ==
  IF ~x.ok \/ ~y.ok THEN Bad
  ELSE IF IsInt(x) THEN y
  ELSE IF ~BroadcastsInto(y, x) THEN Bad
  ELSE Tensor(x.b, x.ch, [t \in 1..Len(x.data) |-> x.data[t] \cup At(y, t)],
              x.terms \o y.terms)

\* x[:, :, i:]
TimeFrom(x, i) ==
  IF ~x.ok THEN Bad ELSE Tensor(x.b, x.ch, SliceFrom(x.data, i), x.terms)
\* x[:, :, :j]
TimeTo(x, j) ==
  IF ~x.ok THEN Bad ELSE Tensor(x.b, x.ch, SliceTo(x.data, j), x.terms)

\* ------------------------------------------------------ DilatedCausalConv1d
\* Variant: the convolution is built without padding.
DilatedCausalConv1dInit_NoPadding(name, in_channels, out_channels, dilation) ==
  [padding |-> dilation,
   conv |-> Conv1dLayer(name, in_channels, out_channels, 2, 0, dilation)]

DilatedCausalConv1dInit(name, in_channels, out_channels, dilation) ==
  [padding |-> dilation,
   conv |-> Conv1dLayer(name, in_channels, out_channels, 2, dilation, dilation)]

\* Variant: the first `padding` outputs are trimmed instead of the last.
DilatedCausalConv1dForward_TrimFront(self, input) ==
  LET output == Conv1d(self.conv, input)
  IN TimeFrom(output, self.padding)

\* Variant: nothing is trimmed.
DilatedCausalConv1dForward_NoTrim(self, input) ==
  Conv1d(self.conv, input)

\* Variant: the slice bound lost its sign, output[:, :, :self.padding].
DilatedCausalConv1dForward_KeepFirst(self, input) ==
  LET output == Conv1d(self.conv, input)
  IN TimeTo(output, self.padding)

DilatedCausalConv1dForward(self, input) ==
  LET output == Conv1d(self.conv, input)
  IN TimeTo(output, -self.padding)

\* ------------------------------------------------------------ ResidualBlock
\* index is the block's position in ResidualStack.res_blocks; it names the
\* block's layers.
ResidualBlockInit(index, residual_channels, dilation_channels, skip_channels, dilation) ==
  [dilation |-> dilation,
   dilated_conv |-> DilatedCausalConv1dInit(<<"dilated_conv", index>>,
                       residual_channels, residual_channels, dilation),
   tanh_conv |-> Conv1dLayer(<<"tanh_conv", index>>, residual_channels,
                       dilation_channels, 1, 0, 1),
   sigmoid_conv |-> Conv1dLayer(<<"sigmoid_conv", index>>, residual_channels,
                       dilation_channels, 1, 0, 1),
   residual_conv |-> Conv1dLayer(<<"residual_conv", index>>, dilation_channels,
                       residual_channels, 1, 0, 1),
   skip_conv |-> Conv1dLayer(<<"skip_conv", index>>, dilation_channels,
                       skip_channels, 1, 0, 1),
   gate |-> <<"gated", index>>]

\* Variant: the slice  skip = skip[:, :, -skip_size:]  is applied.
SkipOut_Sliced(skip, skip_size) == TimeFrom(skip, -skip_size)

\* The skip output as the block returns it: the slice by skip_size is
\* commented out in the source (network.py:41).
SkipOut(skip, skip_size) == skip

\* Returns the record of everything the block computes; .output and .skip
\* are the returned pair.
ResidualBlockForward(self, input, skip_size) ==
  LET conv_out == DilatedCausalConv1dForward(self.dilated_conv, input)
      gated_tanh == Activation(Conv1d(self.tanh_conv, conv_out))
      gated_sigmoid == Activation(Conv1d(self.sigmoid_conv, conv_out))
      gated == Mul(gated_tanh, gated_sigmoid, self.gate)
      res == Conv1d(self.residual_conv, gated)
      slice == TimeFrom(input, -Len(res.data))
      output == AddInPlace(res, slice)
      skip == SkipOut(Conv1d(self.skip_conv, gated), skip_size)
  IN [dilation |-> self.dilation, input |-> input, conv |-> conv_out,
      res |-> res, slice |-> slice, output |-> output, skip |-> skip,
      skip_size |-> skip_size]

\* ------------------------------------------------------------ ResidualStack
\* Variant: the dilation keeps doubling across stacks.
build_dilations_NoRestart(layer_size, stack_size) ==
  [k \in 1..(Max(layer_size, 0) * Max(stack_size, 0)) |-> Pow2(k - 1)]

build_dilations(layer_size, stack_size) ==
  Repeat([k \in 1..Max(layer_size, 0) |-> Pow2(Range(layer_size)[k])], stack_size)

stack_res_blocks(layer_size, stack_size, residual_channels, dilation_channels, skip_channels) ==
  LET dilations == build_dilations(layer_size, stack_size)
  IN [k \in 1..Len(dilations) |->
        ResidualBlockInit(k - 1, residual_channels, dilation_channels,
                          skip_channels, dilations[k])]

\* -------------------------------------------------------------- PostProcess
PostProcessInit(skip_channels, end_channels, channels) ==
  [conv1 |-> Conv1dLayer(<<"post_conv1">>, skip_channels, end_channels, 1, 0, 1),
   conv2 |-> Conv1dLayer(<<"post_conv2">>, end_channels, channels, 1, 0, 1)]

PostProcessForward(self, input) ==
  LET o1 == Activation(input)
      o2 == Conv1d(self.conv1, o1)
      o3 == Activation(o2)
      o4 == Conv1d(self.conv2, o3)
  IN Activation(o4)

\* ------------------------------------------------------------------ Wavenet
\* Variant: range(1, layer_size + 1).
calc_receptive_field_OffByOne(layer_size, stack_size) ==
  SumSeq(Repeat([k \in 1..Max(layer_size, 0) |-> Pow2(k)], stack_size))

\* np.sum of the dilation list, converted with int(); np.sum([]) is 0.0.
\* (The accumulator is a 64-bit integer; within the bounds of this model
\* the sums stay below 2^31.)
calc_receptive_field(layer_size, stack_size) ==
  LET layers == Repeat([k \in 1..Max(layer_size, 0) |-> Pow2(Range(layer_size)[k])],
                       stack_size)
  IN SumSeq(layers)

calc_output_size(input, receptive_field) == Len(input.data) - receptive_field

WavenetInit(layer_size, stack_size, channels, residual_channels, dilation_channels, skip_channels, end_channels) ==
  [layer_size |-> layer_size, stack_size |-> stack_size,
   channels |-> channels, residual_channels |-> residual_channels,
   dilation_channels |-> dilation_channels, skip_channels |-> skip_channels,
   end_channels |-> end_channels,
   receptive_field |-> calc_receptive_field(layer_size, stack_size),
   causal |-> DilatedCausalConv1dInit(<<"causal">>, channels, residual_channels, 1),
   res_blocks |-> stack_res_blocks(layer_size, stack_size, residual_channels,
                                   dilation_channels, skip_channels),
   post |-> PostProcessInit(skip_channels, end_channels, channels)]

\* ------------------------------------------- Model.py: spectral_norm
\* Model.py:11-13
SPECTRAL_UPDATE_OPS == "spectral_update_ops"
NO_OPS == "no_ops"
ITERS == 1
\* Python's None as the update_collection argument.
None == "None"
UpdateCollections == {None, NO_OPS, SPECTRAL_UPDATE_OPS}

\* A row vector [1, n] is a sequence of n integers, a matrix [r, c] a
\* sequence of r rows.  An l2-normalized vector is represented by the
\* primitive integer vector of its direction (the entries divided by their
\* greatest common divisor), the zero vector by itself: normalization maps
\* x to x / (|x| + 1e-12), which keeps the direction of x and forgets its
\* length.
RECURSIVE Gcd(_, _)
Gcd(a, b) == IF b = 0 THEN a ELSE Gcd(b, a % b)
Abs(a) == IF a < 0 THEN -a ELSE a
RECURSIVE GcdSeq(_)
GcdSeq(x) == IF x = <<>> THEN 0 ELSE Gcd(Abs(Head(x)), GcdSeq(Tail(x)))

_l2_normalize(inputs) ==
  LET g == GcdSeq(inputs)
  IN IF g = 0 THEN inputs ELSE [k \in 1..Len(inputs) |-> inputs[k] \div g]

Dot(x, y) == SumSeq([k \in 1..Len(x) |-> x[k] * y[k]])
\* tf.matmul(x, tf.transpose(w)) for a row vector x of length cols(w)
MatmulTransposed(x, w) == [j \in 1..Len(w) |-> Dot(x, w[j])]
\* tf.matmul(x, w) for a row vector x of length rows(w)
Matmul(x, w) ==
  [k \in 1..Len(w[1]) |-> SumSeq([j \in 1..Len(w) |-> x[j] * w[j][k]])]

\* The body of the while loop: <<i + 1, u_ip1, v_ip1>>.
power_iteration(w, i, u_i, v_i) ==
  LET v_ip1 == _l2_normalize(MatmulTransposed(u_i, w))
      u_ip1 == _l2_normalize(Matmul(v_ip1, w))
  IN <<i + 1, u_ip1, v_ip1>>

RECURSIVE while_loop(_, _)
\* tf.while_loop(cond = i < ITERS, body = power_iteration, loop_vars)
while_loop(w, loop_vars) ==
  IF loop_vars[1] < ITERS
  THEN while_loop(w, power_iteration(w, loop_vars[1], loop_vars[2], loop_vars[3]))
  ELSE loop_vars

\* u_final of a call that reads the persisted vector u.
UFinal(w, u) ==
  while_loop(w, <<0, u, [j \in 1..Len(w) |-> 0]>>)[2]

\* Whether evaluating the weight spectral_norm returns runs u.assign(u_final)
\* (the control dependency of Model.py:35-37).
AssignsOnCall(update_collection) == update_collection = None

\* Whether the call adds u.assign(u_final) to the collection (Model.py:40-41).
AddsToCollection(update_collection) ==
  update_collection # None /\ update_collection # NO_OPS

\* The weights the calls normalize and the values the initializer of u may
\* draw (tf.get_variable without initializer draws at random).
Weights == { << <<1, 1>>, <<0, 1>> >>, << <<1, 0>>, <<0, 1>> >>,
             << <<2, 0>>, <<0, 1>> >>, << <<1, 2>> >> }
UInitial == { <<1, 0>>, <<0, 1>>, <<1, 1>>, <<1, -1>> }

\* ------------------------------------------------ Model.py: 4-D shapes
\* A tensor of Model.py is its static shape, <<batch, channels, height,
\* width>> for the NCHW feature maps.  Invalid is the exception raised at
\* graph construction (shape mismatch, index out of range).
Invalid == << -1 >>
CeilDiv(a, b) == (a + b - 1) \div b
Last(s) == s[Len(s)]

\* tf.transpose(x, perm), perm 0-based
Transpose(x, perm) ==
  IF x = Invalid \/ Len(x) # Len(perm) THEN Invalid
  ELSE [k \in 1..Len(perm) |-> x[perm[k] + 1]]

\* a + b with broadcasting
AddShapes(a, b) ==
  IF a = Invalid \/ b = Invalid \/ Len(a) # Len(b) THEN Invalid
  ELSE IF \E k \in 1..Len(a) : a[k] # b[k] /\ a[k] # 1 /\ b[k] # 1 THEN Invalid
  ELSE [k \in 1..Len(a) |-> Max(a[k], b[k])]

\* tf.concat([a, b], axis=1)
ConcatAxis1(a, b) ==
  IF a = Invalid \/ b = Invalid \/ Len(a) # Len(b) \/ Len(a) < 2 THEN Invalid
  ELSE IF \E k \in 1..Len(a) : k # 2 /\ a[k] # b[k] THEN Invalid
  ELSE [a EXCEPT ![2] = a[2] + b[2]]

\* tf.tile(x, multiples)
Tile(x, multiples) ==
  IF x = Invalid \/ Len(x) # Len(multiples) THEN Invalid
  ELSE [k \in 1..Len(x) |-> x[k] * multiples[k]]

\* tf.squeeze(x): every dimension of size 1 is removed.
Squeeze(x) == IF x = Invalid THEN Invalid ELSE SelectSeq(x, LAMBDA d : d # 1)

\* conv(inputs, channels, strides_h, strides_w, transpose): padding 'SAME',
\* data_format 'NCHW'.  The kernel size (3x3, or 1x1 for name == 'skip')
\* does not enter the output shape under SAME padding; bias_add and the
\* activation keep the shape.
conv(inputs, channels, strides_h, strides_w, transpose) ==
  IF inputs = Invalid \/ Len(inputs) # 4 THEN Invalid
  ELSE IF transpose
       THEN <<inputs[1], channels, inputs[3] * strides_h, inputs[4] * strides_w>>
       ELSE <<inputs[1], channels, CeilDiv(inputs[3], strides_h),
              CeilDiv(inputs[4], strides_w)>>

\* dense(inputs, units): the weight has shape [inputs.shape[1], units];
\* tf.matmul of the two needs both of rank 2 with matching inner dimension.
dense(inputs, units) ==
  IF inputs = Invalid \/ Len(inputs) < 2 THEN Invalid
  ELSE LET w == <<inputs[2], units>>
       IN IF Len(inputs) # 2 \/ inputs[2] # w[1] THEN Invalid
          ELSE <<inputs[1], w[2]>>

\* The channel count of the encoder's i-th convolution, 2 ** (i // 2 + 3).
EncoderChannels(i) == Pow2(i \div 2 + 3)

\* One iteration of the encoder's while loop body.
EncoderConv(x, i) == conv(x, EncoderChannels(i), 2, 2, FALSE)

\* What follows the loop: squeeze, dense1 with 64 units, tanh.
EncoderHead(x) == dense(Squeeze(x), 64)

label_concat(inputs, label) ==
  IF inputs = Invalid \/ Len(inputs) < 2 THEN Invalid
  ELSE LET dim1 == inputs[Len(inputs) - 1]
           dim2 == inputs[Len(inputs)]
           tiled == Tile(label, <<1, 1, dim1, dim2>>)
       IN ConcatAxis1(inputs, tiled)

\* tf.image.resize_nearest_neighbor(x, size) on an NHWC tensor
ResizeNearestNeighbor(x, size) ==
  IF x = Invalid \/ Len(x) # 4 THEN Invalid ELSE <<x[1], size[1], size[2], x[4]>>

\* Variant: the target size is the input's own.
upsample_NoDoubling(inputs, channels) ==
  IF inputs = Invalid \/ Len(inputs) # 4 THEN Invalid
  ELSE LET size == <<inputs[3], inputs[4]>>
           nhwc == ResizeNearestNeighbor(Transpose(inputs, <<0, 2, 3, 1>>), size)
           skip == Transpose(nhwc, <<0, 3, 1, 2>>)
           conv1 == conv(skip, channels, 1, 1, FALSE)
           conv2 == conv(conv1, channels, 1, 1, FALSE)
           skipc == conv(skip, channels, 1, 1, FALSE)
       IN AddShapes(conv2, skipc)

\* upsample(inputs, channels): batch normalization and relu keep the shape.
upsample(inputs, channels) ==
  IF inputs = Invalid \/ Len(inputs) # 4 THEN Invalid
  ELSE LET size == <<inputs[3] * 2, inputs[4] * 2>>
           nhwc == ResizeNearestNeighbor(Transpose(inputs, <<0, 2, 3, 1>>), size)
           skip == Transpose(nhwc, <<0, 3, 1, 2>>)
           conv1 == conv(skip, channels, 1, 1, FALSE)
           conv2 == conv(conv1, channels, 1, 1, FALSE)
           skipc == conv(skip, channels, 1, 1, FALSE)
       IN AddShapes(conv2, skipc)

genblock(inputs, channels, label) ==
  upsample(label_concat(inputs, label), channels)

generator1(inputs, label) == genblock(inputs, 64, label)
generator2(inputs, label) == genblock(inputs, 32, label)
generator3(inputs, label) == genblock(inputs, 16, label)

\* tf.layers.average_pooling2d(inputs, pool_size, strides, padding,
\* data_format='channels_first'): 'same' gives ceil(n / strides) per spatial
\* dimension, 'valid' floor((n - pool_size) / strides) + 1 and fails when
\* the window does not fit.
average_pooling2d(inputs, pool_size, strides, padding) ==
  IF inputs = Invalid \/ Len(inputs) # 4 THEN Invalid
  ELSE IF padding = "same"
       THEN <<inputs[1], inputs[2], CeilDiv(inputs[3], strides),
              CeilDiv(inputs[4], strides)>>
       ELSE IF inputs[3] < pool_size \/ inputs[4] < pool_size THEN Invalid
            ELSE <<inputs[1], inputs[2], (inputs[3] - pool_size) \div strides + 1,
                   (inputs[4] - pool_size) \div strides + 1>>

\* Variant: the pooling uses padding='valid'.
downblock_ValidPadding(inputs, channels) ==
  LET skip == average_pooling2d(inputs, 2, 2, "valid")
      conv1 == conv(skip, channels, 1, 1, FALSE)
      conv2 == conv(conv1, channels, 1, 1, FALSE)
      skipc == conv(skip, channels, 1, 1, FALSE)
  IN AddShapes(conv2, skipc)

downblock(inputs, channels) ==
  LET skip == average_pooling2d(inputs, 2, 2, "same")
      conv1 == conv(skip, channels, 1, 1, FALSE)
      conv2 == conv(conv1, channels, 1, 1, FALSE)
      skipc == conv(skip, channels, 1, 1, FALSE)
  IN AddShapes(conv2, skipc)

\* downsample before its loop: channels = 16, two convolutions and the skip
\* convolution of the input, added.
DownsampleStem(inputs) ==
  LET channels == 16
      conv1 == conv(inputs, channels, 1, 1, FALSE)
      conv2 == conv(conv1, channels, 1, 1, FALSE)
      skip == conv(inputs, channels, 1, 1, FALSE)
  IN AddShapes(conv2, skip)

\* The channel count of downblock_i, channels * (2 ** i) with channels = 16.
DownblockChannels(i) == 16 * Pow2(i)

\* ------------------------------------------------------------------- state
VARIABLES
  net,          \* the constructed Wavenet
  pc,           \* position in Wavenet.forward
  input,        \* the argument of Wavenet.forward
  output_size,  \* local of Wavenet.forward
  output,       \* local `output` of Wavenet.forward / ResidualStack.forward
  sum,          \* local `sum` of ResidualStack.forward
  blk,          \* number of res_blocks the loop has run
  trace,        \* what each block run so far computed (history)
  \* spectral_norm
  weight,       \* the weight tensor `inputs`, reshaped to 2-D
  u,            \* the persisted variable 'u' (<<>> until it is created)
  u_init,       \* the value u was created with
  created,      \* how many times the variable 'u' was created
  collection,   \* per collection name, the u.assign(u_final) ops added to it
  writes,       \* how many times u was assigned (history)
  calls,        \* calls of spectral_norm and runs of update ops so far
  last,         \* what the last call or run did (history)
  \* generator pyramid
  gen_base,     \* shape of the base feature map
  gen_label,    \* shape of the label
  gen_stage,    \* how many generators have been applied
  gen_out,      \* the outputs of the generators applied so far
  \* encoder
  enc_inputs,   \* shape of the encoder's argument
  enc_output,   \* local `output` of encoder
  enc_i,        \* local `i` of encoder
  enc_pc,       \* "loop", "done" (returned) or "error" (raised)
  \* downsample
  ds_inputs,    \* shape of downsample's argument
  ds_output,    \* local `output` of downsample
  ds_i,         \* local `i` of downsample
  ds_pc         \* "entry", "loop", "done" (returned) or "error" (raised)

wvars == <<net, pc, input, output_size, output, sum, blk, trace>>
snvars == <<weight, u, u_init, created, collection, writes, calls, last>>
gvars == <<gen_base, gen_label, gen_stage, gen_out>>
evars == <<enc_inputs, enc_output, enc_i, enc_pc>>
dvars == <<ds_inputs, ds_output, ds_i, ds_pc>>
vars == <<wvars, snvars, gvars, evars, dvars>>
notW == <<snvars, gvars, evars, dvars>>
notSN == <<wvars, gvars, evars, dvars>>
notG == <<wvars, snvars, evars, dvars>>
notE == <<wvars, snvars, gvars, dvars>>
notD == <<wvars, snvars, gvars, evars>>

\* The input of forward: sample t depends on itself.
InputTensor(b, ch, T) == Tensor(b, ch, [t \in 1..T |-> {t - 1}], << <<"input">> >>)

WIdle ==
  /\ net = WavenetInit(0, 0, 1, 1, 1, 1, 1)
  /\ pc = "off"
  /\ input = Bad
  /\ output_size = 0
  /\ output = Bad
  /\ sum = Zero
  /\ blk = 0
  /\ trace = <<>>

WInit ==
  /\ \E L \in 0..MaxLayer, S \in 0..MaxStack, c \in ChannelConfigs :
       net = WavenetInit(L, S, c[1], c[2], c[3], c[4], c[5])
  /\ pc = "idle"
  /\ input = Bad
  /\ output_size = 0
  /\ output = Bad
  /\ sum = Zero
  /\ blk = 0
  /\ trace = <<>>

\* Wavenet.forward is called: output_size = self.calc_output_size(input).
ForwardCall ==
  /\ pc = "idle"
  /\ \E b \in 1..MaxBatch, T \in 1..MaxT :
       /\ input' = InputTensor(b, net.channels, T)
       /\ output_size' = calc_output_size(InputTensor(b, net.channels, T),
                                          net.receptive_field)
  /\ pc' = "causal"
  /\ UNCHANGED <<net, output, sum, blk, trace>>
  /\ UNCHANGED notW

\* output = self.causal(input); then ResidualStack.forward starts:
\* output = input; sum = 0.
CausalStep ==
  /\ pc = "causal"
  /\ LET o == DilatedCausalConv1dForward(net.causal, input)
     IN /\ output' = o
        /\ pc' = IF o.ok THEN "stack" ELSE "error"
  /\ sum' = Zero
  /\ blk' = 0
  /\ UNCHANGED <<net, input, output_size, trace>>
  /\ UNCHANGED notW

\* One iteration of  for res_block in self.res_blocks:
\*   output, skip = res_block(output, skip_size); sum += skip
BlockStep ==
  /\ pc = "stack"
  /\ blk < Len(net.res_blocks)
  /\ LET r == ResidualBlockForward(net.res_blocks[blk + 1], output, output_size)
         s == AddInPlace(sum, r.skip)
     IN /\ trace' = Append(trace, r)
        /\ output' = r.output
        /\ sum' = s
        /\ pc' = IF r.output.ok /\ r.skip.ok /\ s.ok THEN "stack" ELSE "error"
  /\ blk' = blk + 1
  /\ UNCHANGED <<net, input, output_size>>
  /\ UNCHANGED notW

\* return sum  (ResidualStack.forward), assigned to Wavenet.forward's output.
StackReturn ==
  /\ pc = "stack"
  /\ blk = Len(net.res_blocks)
  /\ output' = sum
  /\ pc' = "post"
  /\ UNCHANGED <<net, input, output_size, sum, blk, trace>>
  /\ UNCHANGED notW

\* output = self.post(output); return output
PostStep ==
  /\ pc = "post"
  /\ LET o == PostProcessForward(net.post, output)
     IN /\ output' = o
        /\ pc' = IF o.ok THEN "done" ELSE "error"
  /\ UNCHANGED <<net, input, output_size, sum, blk, trace>>
  /\ UNCHANGED notW

\* ------------------------------------------------- spectral_norm: the state
NoCall == [op |-> "none", uc |-> None, u_before |-> <<>>, u_final |-> <<>>,
           writes_before |-> 0, added_before |-> 0]

SNIdle ==
  /\ weight = << <<1>> >>
  /\ u = <<>>
  /\ u_init = <<>>
  /\ created = 0
  /\ collection = [c \in {SPECTRAL_UPDATE_OPS} |-> 0]
  /\ writes = 0
  /\ calls = 0
  /\ last = NoCall

SNInit ==
  /\ weight \in Weights
  /\ u = <<>>
  /\ u_init = <<>>
  /\ created = 0
  /\ collection = [c \in {SPECTRAL_UPDATE_OPS} |-> 0]
  /\ writes = 0
  /\ calls = 0
  /\ last = NoCall

\* Variant: the assignment is a control dependency for every
\* update_collection.
spectral_norm_AlwaysAssign(update_collection) ==
  /\ calls < MaxCalls
  /\ \E fresh \in (IF created = 0 THEN UInitial ELSE {u}) :
       LET cur == fresh
           u_final == UFinal(weight, cur)
       IN /\ u_init' = IF created = 0 THEN fresh ELSE u_init
          /\ u' = u_final
          /\ last' = [op |-> "spectral_norm", uc |-> update_collection,
                      u_before |-> cur, u_final |-> u_final,
                      writes_before |-> writes,
                      added_before |-> collection[SPECTRAL_UPDATE_OPS]]
  /\ created' = IF created = 0 THEN 1 ELSE created
  /\ writes' = writes + 1
  /\ collection' = collection
  /\ calls' = calls + 1
  /\ UNCHANGED weight
  /\ UNCHANGED notSN

\* One call of spectral_norm(inputs, update_collection) on the weight, with
\* the evaluation of the tensor it returns.  tf.get_variable('u') creates
\* the variable on the first call of the scope, with a value its
\* initializer draws, and returns the same variable afterwards.
spectral_norm(update_collection) ==
  /\ calls < MaxCalls
  /\ \E fresh \in (IF created = 0 THEN UInitial ELSE {u}) :
       LET cur == fresh
           u_final == UFinal(weight, cur)
       IN /\ u_init' = IF created = 0 THEN fresh ELSE u_init
          /\ u' = IF AssignsOnCall(update_collection) THEN u_final ELSE cur
          /\ last' = [op |-> "spectral_norm", uc |-> update_collection,
                      u_before |-> cur, u_final |-> u_final,
                      writes_before |-> writes,
                      added_before |-> collection[SPECTRAL_UPDATE_OPS]]
  /\ created' = IF created = 0 THEN 1 ELSE created
  /\ writes' = IF AssignsOnCall(update_collection) THEN writes + 1 ELSE writes
  /\ collection' = IF AddsToCollection(update_collection)
                   THEN [collection EXCEPT ![update_collection] = @ + 1]
                   ELSE collection
  /\ calls' = calls + 1
  /\ UNCHANGED weight
  /\ UNCHANGED notSN

\* One op u.assign(u_final) of a collection is run: u_final is computed from
\* the value u has then.
RunUpdateOp(name) ==
  /\ calls < MaxCalls
  /\ collection[name] > 0
  /\ LET u_final == UFinal(weight, u)
     IN /\ u' = u_final
        /\ last' = [op |-> "update_op", uc |-> name, u_before |-> u,
                    u_final |-> u_final, writes_before |-> writes,
                    added_before |-> collection[name]]
  /\ writes' = writes + 1
  /\ calls' = calls + 1
  /\ UNCHANGED <<weight, u_init, created, collection>>
  /\ UNCHANGED notSN

\* ---------------------------------------------- generator pyramid: state
GIdle ==
  /\ gen_base = Invalid
  /\ gen_label = Invalid
  /\ gen_stage = 0
  /\ gen_out = <<>>

\* The base feature map (shared_gen's output has 64 channels) and the label
\* (6 channels, Model.py:192-194).
GInit ==
  /\ \E n \in 1..MaxBatch, c \in {64, 3}, h \in 1..MaxH, w \in 1..MaxW :
       gen_base = <<n, c, h, w>>
  /\ \E lh \in 1..2, lw \in 1..2 : gen_label = <<gen_base[1], 6, lh, lw>>
  /\ gen_stage = 1
  /\ gen_out = <<>>

Generator1 ==
  /\ gen_stage = 1
  /\ LET o == generator1(gen_base, gen_label)
     IN /\ gen_out' = Append(gen_out, o)
        /\ gen_stage' = IF o = Invalid THEN -1 ELSE 2
  /\ UNCHANGED <<gen_base, gen_label>>
  /\ UNCHANGED notG

Generator2 ==
  /\ gen_stage = 2
  /\ LET o == generator2(gen_out[1], gen_label)
     IN /\ gen_out' = Append(gen_out, o)
        /\ gen_stage' = IF o = Invalid THEN -1 ELSE 3
  /\ UNCHANGED <<gen_base, gen_label>>
  /\ UNCHANGED notG

Generator3 ==
  /\ gen_stage = 3
  /\ LET o == generator3(gen_out[2], gen_label)
     IN /\ gen_out' = Append(gen_out, o)
        /\ gen_stage' = IF o = Invalid THEN -1 ELSE 4
  /\ UNCHANGED <<gen_base, gen_label>>
  /\ UNCHANGED notG

\* ------------------------------------------------------- encoder: state
EIdle ==
  /\ enc_inputs = Invalid
  /\ enc_output = Invalid
  /\ enc_i = 0
  /\ enc_pc = "off"

\* encoder(inputs, ...) is entered: output = inputs; i = 0.
EInit ==
  /\ \E n \in 1..MaxBatch, c \in {1, 3}, h \in 1..MaxEncH, w \in 1..MaxEncW :
       enc_inputs = <<n, c, h, w>>
  /\ enc_output = enc_inputs
  /\ enc_i = 0
  /\ enc_pc = "loop"

\* while output.get_shape().as_list()[-1] > 1: output = conv(...); i += 1
EncoderLoop ==
  /\ enc_pc = "loop"
  /\ Last(enc_output) > 1
  /\ enc_output' = EncoderConv(enc_output, enc_i)
  /\ enc_i' = enc_i + 1
  /\ UNCHANGED <<enc_inputs, enc_pc>>
  /\ UNCHANGED notE

\* The loop is left: squeeze, dense1, tanh, return.
EncoderReturn ==
  /\ enc_pc = "loop"
  /\ ~(Last(enc_output) > 1)
  /\ LET o == EncoderHead(enc_output)
     IN /\ enc_output' = o
        /\ enc_pc' = IF o = Invalid THEN "error" ELSE "done"
  /\ UNCHANGED <<enc_inputs, enc_i>>
  /\ UNCHANGED notE

\* ---------------------------------------------------- downsample: state
DIdle ==
  /\ ds_inputs = Invalid
  /\ ds_output = Invalid
  /\ ds_i = 0
  /\ ds_pc = "off"

\* downsample(inputs, ...) is entered.
DInit ==
  /\ \E n \in 1..MaxBatch, c \in {1, 3}, h \in 1..MaxDownH, w \in 1..MaxDownW :
       ds_inputs = <<n, c, h, w>>
  /\ ds_output = Invalid
  /\ ds_i = 0
  /\ ds_pc = "entry"

\* conv1, conv2, skip, output = output + skip; i = 1
DownsampleEnter ==
  /\ ds_pc = "entry"
  /\ LET o == DownsampleStem(ds_inputs)
     IN /\ ds_output' = o
        /\ ds_pc' = IF o = Invalid THEN "error" ELSE "loop"
  /\ ds_i' = 1
  /\ UNCHANGED ds_inputs
  /\ UNCHANGED notD

\* while output.get_shape().as_list()[-2] > 1:
\*   output = downblock(output, channels * (2 ** i), ...); i += 1
DownsampleLoop ==
  /\ ds_pc = "loop"
  /\ ds_output[Len(ds_output) - 1] > 1
  /\ LET o == downblock(ds_output, DownblockChannels(ds_i))
     IN /\ ds_output' = o
        /\ ds_pc' = IF o = Invalid THEN "error" ELSE "loop"
  /\ ds_i' = ds_i + 1
  /\ UNCHANGED ds_inputs
  /\ UNCHANGED notD

\* return output
DownsampleReturn ==
  /\ ds_pc = "loop"
  /\ ~(ds_output[Len(ds_output) - 1] > 1)
  /\ ds_pc' = "done"
  /\ UNCHANGED <<ds_inputs, ds_output, ds_i>>
  /\ UNCHANGED notD

\* ------------------------------------------------------- specifications
\* Wavenet: construction and one forward pass.
Init == WInit /\ SNIdle /\ GIdle /\ EIdle /\ DIdle
Next == ForwardCall \/ CausalStep \/ BlockStep \/ StackReturn \/ PostStep
Spec == Init /\ [][Next]_vars

\* spectral_norm on one weight tensor.
InitSN == SNInit /\ WIdle /\ GIdle /\ EIdle /\ DIdle
NextSN ==
  \/ \E uc \in UpdateCollections : spectral_norm(uc)
  \/ RunUpdateOp(SPECTRAL_UPDATE_OPS)
SpecSN == InitSN /\ [][NextSN]_vars

\* generator1, generator2, generator3 in sequence.
InitGen == GInit /\ WIdle /\ SNIdle /\ EIdle /\ DIdle
NextGen == Generator1 \/ Generator2 \/ Generator3
SpecGen == InitGen /\ [][NextGen]_vars

\* encoder on one input.
InitEnc == EInit /\ WIdle /\ SNIdle /\ GIdle /\ DIdle
NextEnc == EncoderLoop \/ EncoderReturn
SpecEnc == InitEnc /\ [][NextEnc]_vars

\* downsample on one input.
InitDown == DInit /\ WIdle /\ SNIdle /\ GIdle /\ EIdle
NextDown == DownsampleEnter \/ DownsampleLoop \/ DownsampleReturn
SpecDown == InitDown /\ [][NextDown]_vars

\* ================================================================== claims
L == net.layer_size
S == net.stack_size
T == Len(input.data)
NBlocks == Len(net.res_blocks)
Finished == pc \in {"done", "error"}
\* 0-based time indices at or before the sample at 1-based position p.
UpTo(p) == 0..(p - 1)
\* The set a tensor's sample reads at 1-based position p, {} before the start.
Tap(x, p) == IF p >= 1 /\ p <= Len(x.data) THEN x.data[p] ELSE {}

\* C1 (as stated in the specification): for L >= 1, S >= 1 and T >
\* receptive_field, Wavenet.forward returns a tensor of temporal length
\* T - receptive_field.
C1_Stated ==
  (Finished /\ L >= 1 /\ S >= 1 /\ T > net.receptive_field)
    => (pc = "done" /\ Len(output.data) = T - net.receptive_field)

\* C1 (amended): for L >= 1, S >= 1 and T > receptive_field, Wavenet.forward
\* returns normally a tensor of temporal length exactly T, with `channels`
\* channels; T - receptive_field is only the value calc_output_size computes
\* and forward passes on as skip_size.
C1_ForwardKeepsLength ==
  (L >= 1 /\ S >= 1 /\ pc # "idle" /\ T > net.receptive_field)
    => /\ pc # "error"
       /\ output_size = T - net.receptive_field
       /\ pc = "done" => Shape(output) = <<input.b, net.channels, T>>

C1_Witness ==
  /\ pc = "done" /\ L = 3 /\ S = 1 /\ T = 8
  /\ net.receptive_field = 7 /\ output_size = 1 /\ Len(output.data) = 8

\* C2: for all L >= 0 and S >= 0 calc_receptive_field(L, S), stored by the
\* constructor, is S * (2^L - 1), and equals the sum of the dilations that
\* build_dilations produced for the blocks of the same network.
C2_ReceptiveField ==
  /\ net.receptive_field = S * (2^L - 1)
  /\ net.receptive_field = SumSeq([k \in 1..NBlocks |-> net.res_blocks[k].dilation])
  /\ net.receptive_field = calc_receptive_field(L, S)

C2_Witness ==
  /\ L = 3 /\ S = 2 /\ net.receptive_field = 14 /\ NBlocks = 6

\* C3: causality.  Every tensor of the forward pass at time t is computed
\* from input samples at indices <= t only; and each DilatedCausalConv1d of
\* dilation d computes its output t from its input at t - d and t, indices
\* below 0 being zero padding.
C3_Causal ==
  /\ (pc \in {"stack", "post", "done"} /\ ~IsInt(output)) =>
        \A p \in 1..Len(output.data) : output.data[p] \subseteq UpTo(p)
  /\ (pc = "stack" /\ blk = 0) =>
        \A p \in 1..Len(output.data) :
           output.data[p] = Tap(input, p - 1) \cup Tap(input, p)
  /\ \A k \in 1..Len(trace) :
        LET r == trace[k]
        IN /\ r.conv.ok
           /\ \A p \in 1..Len(r.conv.data) :
                r.conv.data[p] = Tap(r.input, p - r.dilation) \cup Tap(r.input, p)
           /\ \A p \in 1..Len(r.skip.data) : r.skip.data[p] \subseteq UpTo(p)

C3_Witness ==
  /\ pc = "done" /\ Len(trace) = 6 /\ T = 8
  /\ output.data[8] = 0..7
  /\ output.data[3] = 0..2
  /\ trace[3].conv.data[5] = 0..4 /\ trace[3].dilation = 4

\* C4: for every dilation d >= 1 and input length T >= 1 the convolution of
\* DilatedCausalConv1d produces T + d samples and forward returns T of them.
C4_SameLength ==
  /\ (pc = "stack" /\ blk = 0) =>
        /\ Len(Conv1d(net.causal.conv, input).data) = T + 1
        /\ Len(output.data) = T
        /\ \A d \in 1..(MaxT + 1) :
             LET layer == DilatedCausalConv1dInit(<<"any">>, output.ch, output.ch, d)
             IN /\ Len(Conv1d(layer.conv, output).data) = T + d
                /\ Len(DilatedCausalConv1dForward(layer, output).data) = T
  /\ \A k \in 1..Len(trace) :
        LET r == trace[k]
            blockconv == net.res_blocks[k].dilated_conv
        IN /\ blockconv.padding = r.dilation /\ r.dilation >= 1
           /\ Len(Conv1d(blockconv.conv, r.input).data)
                = Len(r.input.data) + r.dilation
           /\ Len(r.conv.data) = Len(r.input.data)

C4_Witness ==
  /\ Len(trace) = 3 /\ trace[3].dilation = 4 /\ T = 5
  /\ Len(trace[3].conv.data) = 5

\* C5 (as stated in the specification): whenever T <= padding the output of
\* DilatedCausalConv1d.forward is empty (temporal length 0).
C5_Stated ==
  \A k \in 1..Len(trace) :
     Len(trace[k].input.data) <= net.res_blocks[k].dilated_conv.padding
       => Len(trace[k].conv.data) = 0

\* C5 (amended): whenever 1 <= T <= padding the output of
\* DilatedCausalConv1d.forward is not empty: it has temporal length T, and
\* each output t is computed from the input at t alone, the tap at
\* t - dilation being zero padding.
C5_ShortInputKept ==
  /\ \A k \in 1..Len(trace) :
        LET r == trace[k]
        IN (Len(r.input.data) <= net.res_blocks[k].dilated_conv.padding)
             => (/\ r.conv.ok
                 /\ Len(r.conv.data) = Len(r.input.data)
                 /\ Len(r.conv.data) >= 1
                 /\ \A p \in 1..Len(r.conv.data) : r.conv.data[p] = r.input.data[p])
  /\ (pc = "stack" /\ blk = 0) =>
        \A d \in T..(MaxT + 1) :
           LET layer == DilatedCausalConv1dInit(<<"any">>, output.ch, output.ch, d)
               o == DilatedCausalConv1dForward(layer, output)
           IN o.ok /\ Len(o.data) = T /\ o.data = output.data

C5_Witness ==
  /\ Len(trace) = 3 /\ T = 3 /\ trace[3].dilation = 4
  /\ Len(trace[3].conv.data) = 3
  /\ trace[3].conv.data[3] = trace[3].input.data[3]

\* C6: ResidualStack holds layer_size * stack_size blocks, block i (0-based)
\* with dilation 2^(i mod layer_size); forward gives block i's residual
\* output to block i+1 as input (block 0 gets the stack's input), and what
\* it returns is the sum of the skip outputs of all blocks, each once, and
\* nothing else.
SkipTerms(n) == [k \in 1..n |-> <<"skip_conv", k - 1>>]
C6_Stack ==
  /\ NBlocks = L * S
  /\ \A k \in 1..NBlocks : net.res_blocks[k].dilation = 2^((k - 1) % L)
  /\ \A k \in 1..Len(trace) :
        /\ trace[k].dilation = net.res_blocks[k].dilation
        /\ trace[k].skip.terms = << <<"skip_conv", k - 1>> >>
        /\ k = 1 => trace[k].input.terms = << <<"causal">> >>
        /\ k > 1 => trace[k].input = trace[k - 1].output
        /\ k = Len(trace) /\ pc = "stack" => output = trace[k].output
  /\ (pc = "stack" /\ blk >= 1) => sum.terms = SkipTerms(blk)
  /\ (pc = "post" /\ NBlocks >= 1) =>
        /\ Len(trace) = NBlocks
        /\ output.terms = SkipTerms(NBlocks)
        /\ \A p \in 1..Len(output.data) :
             output.data[p] = UNION { trace[k].skip.data[p] : k \in 1..NBlocks }
  /\ (pc = "post" /\ NBlocks = 0) => IsInt(output)

C6_Witness ==
  /\ pc = "post" /\ L = 3 /\ S = 2 /\ Len(trace) = 6
  /\ trace[4].dilation = 1 /\ trace[6].dilation = 4
  /\ output.terms = SkipTerms(6)
  /\ trace[6].output.terms # output.terms

\* C10: shapes along the residual chain.  For input length T >= 1, in every
\* block the input and the residual output have residual_channels channels
\* and length T, the skip output has skip_channels channels and length T,
\* the slice input[:, :, -len(output):] is the whole input, and every
\* addition into the running sum is between equal shapes, whatever the
\* skip_size argument is.
C10_Shapes ==
  /\ \A k \in 1..Len(trace) :
        LET r == trace[k]
        IN /\ r.skip_size = T - net.receptive_field
           /\ Shape(r.input) = <<input.b, net.residual_channels, T>>
           /\ Shape(r.res) = <<input.b, net.residual_channels, T>>
           /\ Shape(r.output) = <<input.b, net.residual_channels, T>>
           /\ Shape(r.skip) = <<input.b, net.skip_channels, T>>
           /\ r.slice = r.input
           /\ Len(r.res.data) <= Len(r.input.data)
           /\ \A size \in (0 - MaxT)..MaxT :
                LET q == ResidualBlockForward(net.res_blocks[k], r.input, size)
                IN q.output = r.output /\ q.skip = r.skip
  /\ (pc = "stack" /\ blk >= 1) => Shape(sum) = <<input.b, net.skip_channels, T>>
  /\ (pc = "stack" /\ blk >= 1) => sum.ok

C10_Witness ==
  /\ pc = "stack" /\ blk = 2 /\ T = 5 /\ output_size = 2
  /\ net.residual_channels # net.skip_channels
  /\ Shape(sum) = <<input.b, net.skip_channels, 5>>

\* u after n power-iteration updates of the value it was created with.
RECURSIVE Iterated(_, _, _)
Iterated(w, x, n) == IF n = 0 THEN x ELSE Iterated(w, UFinal(w, x), n - 1)

\* C7 (as stated in the specification): every call of spectral_norm, for
\* every update_collection, replaces the persisted u exactly once with that
\* call's u_final.
C7_Stated ==
  last.op = "spectral_norm"
    => (u = last.u_final /\ writes = last.writes_before + 1)

\* C7 (amended): u is created once per weight tensor.  A call of
\* spectral_norm with update_collection None replaces the persisted u
\* exactly once with that call's u_final; a call with NO_OPS leaves u
\* untouched; a call with a collection name leaves u untouched and adds the
\* assignment to that collection, and u is replaced by u_final each time
\* such an op is run.  u is never reset: it always is the value it was
\* created with after as many power-iteration updates as it was assigned.
C7_Lifecycle ==
  /\ created <= 1
  /\ calls >= 1 => created = 1
  /\ last.op = "spectral_norm" =>
       /\ last.uc = None =>
            /\ u = last.u_final
            /\ writes = last.writes_before + 1
            /\ collection[SPECTRAL_UPDATE_OPS] = last.added_before
       /\ last.uc = NO_OPS =>
            /\ u = last.u_before
            /\ writes = last.writes_before
            /\ collection[SPECTRAL_UPDATE_OPS] = last.added_before
       /\ last.uc = SPECTRAL_UPDATE_OPS =>
            /\ u = last.u_before
            /\ writes = last.writes_before
            /\ collection[SPECTRAL_UPDATE_OPS] = last.added_before + 1
  /\ last.op = "update_op" =>
       /\ u = last.u_final
       /\ writes = last.writes_before + 1
  /\ created = 1 => u = Iterated(weight, u_init, writes)

C7_Witness ==
  /\ calls = 3 /\ writes = 2 /\ last.op = "spectral_norm" /\ last.uc = None
  /\ weight = << <<1, 1>>, <<0, 1>> >>
  /\ u_init = <<1, 0>> /\ last.u_before = <<1, 1>> /\ u = <<2, 3>>
  /\ collection[SPECTRAL_UPDATE_OPS] = 1

\* C8: with a label of spatial size (1, 1), generator1, generator2 applied
\* to its output and generator3 applied to that yield (2H, 2W) with 64
\* channels, (4H, 4W) with 32 and (8H, 8W) with 16; the stride-1 SAME
\* convolutions of a block leave the spatial size of their input unchanged.
C8_Pyramid ==
  (gen_stage # 0 /\ gen_label[3] = 1 /\ gen_label[4] = 1) =>
    LET n == gen_base[1]
        H == gen_base[3]
        W == gen_base[4]
    IN /\ gen_stage # -1
       /\ Len(gen_out) >= 1 => gen_out[1] = <<n, 64, 2 * H, 2 * W>>
       /\ Len(gen_out) >= 2 => gen_out[2] = <<n, 32, 4 * H, 4 * W>>
       /\ Len(gen_out) >= 3 => gen_out[3] = <<n, 16, 8 * H, 8 * W>>
       /\ \A k \in 1..Len(gen_out) :
            /\ SubSeq(conv(gen_out[k], 7, 1, 1, FALSE), 3, 4) = SubSeq(gen_out[k], 3, 4)
            /\ SubSeq(label_concat(gen_out[k], gen_label), 3, 4) = SubSeq(gen_out[k], 3, 4)

C8_Witness ==
  /\ gen_stage = 4 /\ gen_label = <<2, 6, 1, 1>> /\ gen_base = <<2, 64, 3, 2>>
  /\ gen_out = << <<2, 64, 6, 4>>, <<2, 32, 12, 8>>, <<2, 16, 24, 16>> >>

\* C9: for every input of spatial size (H, W) with H, W >= 1 and every batch
\* size >= 1, encoder returns an embedding of shape [batch, 64].
C9_Stated ==
  enc_pc \in {"done", "error"} =>
    (enc_pc = "done" /\ enc_output = <<enc_inputs[1], 64>>)

\* The least k with 2^k >= n, ceil(log2 n), for n >= 1.
RECURSIVE CeilLog2From(_, _)
CeilLog2From(n, k) == IF 2^k >= n THEN k ELSE CeilLog2From(n, k + 1)
CeilLog2(n) == CeilLog2From(n, 0)
\* n halved with ceiling k times.
RECURSIVE HalvedTimes(_, _)
HalvedTimes(n, k) == IF k = 0 THEN n ELSE HalvedTimes((n + 1) \div 2, k - 1)

\* C11: downsample terminates for every input of spatial size (H, W) with
\* H, W >= 1: it never raises and never stops before returning, its loop
\* runs exactly k = ceil(log2 H) downblocks, each halving both spatial
\* dimensions with ceiling, and it returns height 1, width W halved with
\* ceiling k times and 16 * 2^k channels (16 channels and no downblock for
\* H = 1).
C11_Downsample ==
  LET n == ds_inputs[1]
      H == ds_inputs[3]
      W == ds_inputs[4]
      k == CeilLog2(H)
      ran == ds_i - 1
  IN /\ ds_pc # "error"
     /\ ds_pc \in {"entry", "loop"} => ENABLED NextDown
     /\ ds_pc \in {"loop", "done"} =>
          /\ ran >= 0 /\ ran <= k
          /\ ds_output = <<n, 16 * 2^ran, HalvedTimes(H, ran), HalvedTimes(W, ran)>>
     /\ ds_pc = "done" =>
          /\ ran = k
          /\ ds_output = <<n, 16 * 2^k, 1, HalvedTimes(W, k)>>
          /\ H = 1 => ds_output = <<n, 16, 1, W>>

C11_Witness ==
  /\ ds_pc = "done" /\ ds_inputs = <<2, 3, 5, 3>> /\ ds_i = 4
  /\ ds_output = <<2, 128, 1, 1>>

====
